---- MODULE Spec2Model ----
(***************************************************************************)
(* Model of custom_base64_hangul.py: the encoder bytes_to_custom_tokens,   *)
(* the decoder custom_tokens_to_bytes and the round-trip test _run_tests.  *)
(* A string is a sequence of one-symbol strings; cursors keep the 0-based  *)
(* values of the Python code (token_str[i] is token_str[i + 1] here).      *)
(***************************************************************************)
EXTENDS Integers, Sequences, FiniteSets, TLC

\* ---------------------------------------------------------------- constants
\* '낑', '깡', '삐', '앙', '버', '거' : MSB -> LSB
HANGUL_BITS == <<"KKING", "KKANG", "PPI", "ANG", "BEO", "GEO">>

BASE64_ALPHABET ==
  <<"A","B","C","D","E","F","G","H","I","J","K","L","M","N","O","P",
    "Q","R","S","T","U","V","W","X","Y","Z","a","b","c","d","e","f",
    "g","h","i","j","k","l","m","n","o","p","q","r","s","t","u","v",
    "w","x","y","z","0","1","2","3","4","5","6","7","8","9","+","/">>

\* '뿡'
START_DELIM == "PPUNG"

\* '뽕'
END_DELIM == "PPONG"

PADDING_MARKER == "="

\* ------------------------------------------------------------------- bounds
MaxLen == 3
MaxRaw == 4
MaxTokens == 5

\* bytes of the samples of _run_tests: b"f", b"fo", b"\x00\xff\x10\x20"
SampleBytes == {0, 16, 32, 102, 111, 255}

\* a symbol that is none of the nine reserved ones
FOREIGN == "?"

HangulSet == {HANGUL_BITS[t] : t \in 1..6}

Symbols == HangulSet \cup {START_DELIM, END_DELIM, PADDING_MARKER, FOREIGN}

SeqsUpTo(S, m) == UNION {[1..l -> S] : l \in 0..m}

\* ------------------------------------------------------------ pure helpers
Pow2(e) == 2^e

RECURSIVE Join(_)
\* ''.join(list of strings)
Join(list) == IF list = <<>> THEN <<>> ELSE Head(list) \o Join(Tail(list))

\* BASE64_ALPHABET.index(ch), 0-based
AlphabetIndex(ch) == (CHOOSE p \in 1..64 : BASE64_ALPHABET[p] = ch) - 1

\* BASE64_ALPHABET[idx], 0-based
AlphabetAt(idx) == BASE64_ALPHABET[idx + 1]

RECURSIVE b64encode(_)
\* base64.b64encode(data).decode('ascii'): RFC 4648, standard alphabet, padded
b64encode(d) ==
  IF Len(d) = 0 THEN <<>>
  ELSE IF Len(d) = 1 THEN
    <<AlphabetAt(d[1] \div 4), AlphabetAt((d[1] % 4) * 16), "=", "=">>
  ELSE IF Len(d) = 2 THEN
    <<AlphabetAt(d[1] \div 4), AlphabetAt((d[1] % 4) * 16 + d[2] \div 16),
      AlphabetAt((d[2] % 16) * 4), "=">>
  ELSE
    <<AlphabetAt(d[1] \div 4), AlphabetAt((d[1] % 4) * 16 + d[2] \div 16),
      AlphabetAt((d[2] % 16) * 4 + d[3] \div 64), AlphabetAt(d[3] % 64)>>
    \o b64encode(SubSeq(d, 4, Len(d)))

RECURSIVE a2b_scan(_, _, _, _, _, _, _)
\* binascii.a2b_base64(s, strict_mode=True) as base64.b64decode(validate=True)
\* calls it: one character per step; q is quad_pos, left the pending bits
a2b_scan(s, p, q, pads, padding_started, left, bytes) ==
  IF p > Len(s) THEN
    IF q # 0 THEN [ok |-> FALSE, bytes |-> <<>>] ELSE [ok |-> TRUE, bytes |-> bytes]
  ELSE IF s[p] = "=" THEN
    IF q >= 2 /\ q + pads + 1 >= 4 THEN
      IF p < Len(s) THEN [ok |-> FALSE, bytes |-> <<>>]
      ELSE [ok |-> TRUE, bytes |-> bytes]
    ELSE a2b_scan(s, p + 1, q, IF q >= 2 THEN pads + 1 ELSE pads, TRUE, left, bytes)
  ELSE IF \A x \in 1..64 : BASE64_ALPHABET[x] # s[p] THEN [ok |-> FALSE, bytes |-> <<>>]
  ELSE IF padding_started THEN [ok |-> FALSE, bytes |-> <<>>]
  ELSE
    LET v == AlphabetIndex(s[p]) IN
    IF q = 0 THEN a2b_scan(s, p + 1, 1, 0, FALSE, v, bytes)
    ELSE IF q = 1 THEN
      a2b_scan(s, p + 1, 2, 0, FALSE, v % 16, Append(bytes, left * 4 + v \div 16))
    ELSE IF q = 2 THEN
      a2b_scan(s, p + 1, 3, 0, FALSE, v % 4, Append(bytes, left * 16 + v \div 4))
    ELSE a2b_scan(s, p + 1, 0, 0, FALSE, 0, Append(bytes, left * 64 + v))

\* base64.b64decode(b64_str, validate=True)
b64decode(s) ==
  IF Len(s) > 0 /\ s[1] = "=" THEN [ok |-> FALSE, bytes |-> <<>>]
  ELSE a2b_scan(s, 1, 0, 0, FALSE, 0, <<>>)

\* ------------------------------------------------------------------ encoder
\* the bits taken from the least significant end: (idx >> i) & 1
BitLSBFirst(idx, i) == (idx \div Pow2(i)) % 2

\* bit = (idx >> (5 - i)) & 1, with i the 0-based position in HANGUL_BITS
Bit(idx, i) == (idx \div Pow2(5 - i)) % 2

RECURSIVE PresentFrom(_, _)
\* the inner loop of the encoder: hanguls of the set bits, in table order
PresentFrom(idx, i) ==
  IF i > 5 THEN <<>>
  ELSE (IF Bit(idx, i) = 1 THEN <<HANGUL_BITS[i + 1]>> ELSE <<>>) \o PresentFrom(idx, i + 1)

\* the padding token without its marker
PadTokenBare == <<START_DELIM, END_DELIM>>

\* f"{START_DELIM}{PADDING_MARKER}{END_DELIM}"
PadToken == <<START_DELIM, PADDING_MARKER, END_DELIM>>

\* START_DELIM + ''.join(present) + END_DELIM
DataToken(ch) == <<START_DELIM>> \o PresentFrom(AlphabetIndex(ch), 0) \o <<END_DELIM>>

\* the padding branch continues without appending its token
OutAfterSkipPad(o, ch) == IF ch = "=" THEN o ELSE Append(o, DataToken(ch))

\* one iteration of "for ch in b64": the list out after it
OutAfter(o, ch) == IF ch = "=" THEN Append(o, PadToken) ELSE Append(o, DataToken(ch))

\* ------------------------------------------------------------------ decoder
RECURSIVE FindOrEnd(_, _, _)
\* a search that answers the end of the string when sym is missing
FindOrEnd(s, sym, from) ==
  IF from >= Len(s) THEN Len(s)
  ELSE IF s[from + 1] = sym THEN from
  ELSE FindOrEnd(s, sym, from + 1)

RECURSIVE Find(_, _, _)
\* token_str.find(sym, from): 0-based position of the first sym at or after
\* from, or -1
Find(s, sym, from) ==
  IF from >= Len(s) THEN -1
  ELSE IF s[from + 1] = sym THEN from
  ELSE Find(s, sym, from + 1)

\* token_str[i:j]
Slice(s, i0, j0) == SubSeq(s, i0 + 1, j0)

\* a boundary test that takes either delimiter for the start
AtStartOrEnd(s, i0) == s[i0 + 1] \in {START_DELIM, END_DELIM}

\* token_str[i] != START_DELIM, negated
AtStart(s, i0) == s[i0 + 1] = START_DELIM

\* a positional test: the hangul must be the first symbol of content
HangulFirst(h, content) == content # <<>> /\ content[1] = h

\* hangul in content
HangulIn(h, content) == \E p \in 1..Len(content) : content[p] = h

RECURSIVE IdxLoop(_, _, _)
\* for hangul in HANGUL_BITS: idx <<= 1; if hangul in content: idx |= 1
IdxLoop(content, t, idx) ==
  IF t > 6 THEN idx
  ELSE IdxLoop(content, t + 1, idx * 2 + (IF HangulIn(HANGUL_BITS[t], content) THEN 1 ELSE 0))

RECURSIVE IdxLoopLSBFirst(_, _, _)
\* the table read from its last entry to its first
IdxLoopLSBFirst(content, t, idx) ==
  IF t < 1 THEN idx
  ELSE IdxLoopLSBFirst(content, t - 1, idx * 2 + (IF HangulIn(HANGUL_BITS[t], content) THEN 1 ELSE 0))

DecodeIdxLSBFirst(content) == IdxLoopLSBFirst(content, 6, 0)

\* idx = 0, then the loop over HANGUL_BITS
DecodeIdx(content) == IdxLoop(content, 1, 0)

\* a validation that lets the padding marker through
IsAllowedOrPad(ch) == ch = PADDING_MARKER \/ \E t \in 1..6 : HANGUL_BITS[t] = ch

\* ch not in HANGUL_BITS, negated
IsAllowed(ch) == \E t \in 1..6 : HANGUL_BITS[t] = ch

\* the validation loop raises
HasUnknown(content) == \E p \in 1..Len(content) : ~IsAllowed(content[p])

\* the cursor left on the END it matched
NextCursorOnEnd(j) == j

\* i = j + 1
NextCursor(j) == j + 1

\* ------------------------------------------------------------------- state
VARIABLES cmd, data, b64, k, out, tok, token_str, i, b64_chars, back, err, pc

vars == <<cmd, data, b64, k, out, tok, token_str, i, b64_chars, back, err, pc>>

n == Len(token_str)

\* sample tokens the decode inputs are built from: empty content, padding,
\* all six hanguls, hanguls out of table order, a repeated hangul
Pieces ==
  { <<START_DELIM, END_DELIM>>,
    <<START_DELIM, PADDING_MARKER, END_DELIM>>,
    <<START_DELIM>> \o HANGUL_BITS \o <<END_DELIM>>,
    <<START_DELIM, "GEO", "KKING", END_DELIM>>,
    <<START_DELIM, "BEO", "KKING", "BEO", END_DELIM>> }

DecodeInputs == SeqsUpTo(Symbols, MaxRaw) \cup {Join(ps) : ps \in SeqsUpTo(Pieces, MaxTokens)}

\* "test": one sample of _run_tests; "decode": the CLI's decode of an argument
Init ==
  /\ \/ /\ cmd = "test"
        /\ data \in SeqsUpTo(SampleBytes, MaxLen)
        /\ token_str = <<>>
        /\ pc = "encode"
     \/ /\ cmd = "decode"
        /\ data = <<>>
        /\ token_str \in DecodeInputs
        /\ pc = "dec_loop"
  /\ b64 = <<>>
  /\ k = 0
  /\ out = <<>>
  /\ tok = <<>>
  /\ i = 0
  /\ b64_chars = <<>>
  /\ back = <<>>
  /\ err = "none"

\* b64 = base64.b64encode(data).decode('ascii'); out = []
EncodeStart ==
  /\ pc = "encode"
  /\ b64' = b64encode(data)
  /\ out' = <<>>
  /\ k' = 0
  /\ pc' = "enc_loop"
  /\ UNCHANGED <<cmd, data, tok, token_str, i, b64_chars, back, err>>

\* one iteration of "for ch in b64"
EncodeChar ==
  /\ pc = "enc_loop"
  /\ k < Len(b64)
  /\ out' = OutAfter(out, b64[k + 1])
  /\ k' = k + 1
  /\ UNCHANGED <<cmd, data, b64, tok, token_str, i, b64_chars, back, err, pc>>

\* return ''.join(out), and _run_tests passes it on to custom_tokens_to_bytes
EncodeReturn ==
  /\ pc = "enc_loop"
  /\ k >= Len(b64)
  /\ tok' = Join(out)
  /\ token_str' = Join(out)
  /\ i' = 0
  /\ b64_chars' = <<>>
  /\ pc' = "dec_loop"
  /\ UNCHANGED <<cmd, data, b64, k, out, back, err>>

\* one iteration of "while i < n"
DecodeToken ==
  /\ pc = "dec_loop"
  /\ i < n
  /\ IF ~AtStart(token_str, i)
     THEN /\ err' = "start"
          /\ pc' = "error"
          /\ UNCHANGED <<i, b64_chars>>
     ELSE LET j == Find(token_str, END_DELIM, i + 1) IN
          IF j = -1
          THEN /\ i' = i + 1
               /\ err' = "end"
               /\ pc' = "error"
               /\ UNCHANGED b64_chars
          ELSE LET content == Slice(token_str, i + 1, j) IN
               /\ i' = NextCursor(j)
               /\ IF content = <<PADDING_MARKER>>
                  THEN /\ b64_chars' = Append(b64_chars, "=")
                       /\ UNCHANGED <<err, pc>>
                  ELSE IF HasUnknown(content)
                  THEN /\ err' = "unknown"
                       /\ pc' = "error"
                       /\ UNCHANGED b64_chars
                  ELSE /\ b64_chars' = Append(b64_chars, AlphabetAt(DecodeIdx(content)))
                       /\ UNCHANGED <<err, pc>>
  /\ UNCHANGED <<cmd, data, b64, k, out, tok, token_str, back>>

\* the loop ends: b64_str = ''.join(b64_chars); return base64.b64decode(...)
DecodeFinish ==
  /\ pc = "dec_loop"
  /\ i >= n
  /\ LET r == b64decode(b64_chars) IN
     IF r.ok
     THEN /\ back' = r.bytes
          /\ pc' = "returned"
          /\ UNCHANGED err
     ELSE /\ err' = "b64"
          /\ pc' = "error"
          /\ UNCHANGED back
  /\ UNCHANGED <<cmd, data, b64, k, out, tok, token_str, i, b64_chars>>

\* assert back == s, "roundtrip failed"
TestAssert ==
  /\ pc = "returned"
  /\ cmd = "test"
  /\ pc' = IF back = data THEN "passed" ELSE "assert_failed"
  /\ UNCHANGED <<cmd, data, b64, k, out, tok, token_str, i, b64_chars, back, err>>

Next ==
  \/ EncodeStart
  \/ EncodeChar
  \/ EncodeReturn
  \/ DecodeToken
  \/ DecodeFinish
  \/ TestAssert

Spec == Init /\ [][Next]_vars

\* the interpreter keeps running a call until it returns or raises
FairSpec == Spec /\ WF_vars(Next)

TypeOK ==
  /\ cmd \in {"test", "decode"}
  /\ pc \in {"encode", "enc_loop", "dec_loop", "returned", "error", "passed", "assert_failed"}
  /\ err \in {"none", "start", "end", "unknown", "b64"}
  /\ i \in 0..(n + 1)
  /\ k \in 0..Len(b64)

\* ------------------------------------------------- vocabulary of the claims
\* the calls of the encoder and of the decoder have returned or raised
Encoded == pc \notin {"encode", "enc_loop"}

Returned == pc \in {"returned", "passed", "assert_failed"}

SymbolsOf(s) == {s[p] : p \in 1..Len(s)}

CountSym(s, sym) == Cardinality({p \in 1..Len(s) : s[p] = sym})

\* ceil(len / 3) * 4
ExpectedTokens(len) == ((len + 2) \div 3) * 4

\* the place in the stream where the q-th emitted token starts, 0-based
RECURSIVE OffsetOf(_, _)
OffsetOf(list, q) == IF q <= 1 THEN 0 ELSE OffsetOf(list, q - 1) + Len(list[q - 1])

\* bit b (0 = least significant) of a 6-bit index is set
BitSet(idx, b) == (idx \div (2^b)) % 2 = 1

\* table position (0..5) of a bit-symbol
TablePos(h) == (CHOOSE t \in 1..6 : HANGUL_BITS[t] = h) - 1

\* 1-based position of the q-th END of the stream
EndPos(q) ==
  IF q = 0 THEN 0
  ELSE CHOOSE p \in 1..n : token_str[p] = END_DELIM /\ CountSym(SubSeq(token_str, 1, p), END_DELIM) = q

\* content of the q-th token of the stream
ContentOf(q) == SubSeq(token_str, EndPos(q - 1) + 2, EndPos(q) - 1)

\* weight of table entry t (1..6) when its symbol occurs in a content
Weight(c, t) == IF HANGUL_BITS[t] \in SymbolsOf(c) THEN 2^(6 - t) ELSE 0

PresenceIndex(c) ==
  Weight(c, 1) + Weight(c, 2) + Weight(c, 3) + Weight(c, 4) + Weight(c, 5) + Weight(c, 6)

\* the token at the cursor, when the scan is at a loop head before the end
AtLoopHead == pc = "dec_loop" /\ i < n

EndAhead == \E p \in (i + 2)..n : token_str[p] = END_DELIM

\* 1-based position of the first END after the START at the cursor
FirstEnd == CHOOSE p \in (i + 2)..n :
              token_str[p] = END_DELIM /\ \A r \in (i + 2)..(p - 1) : token_str[r] # END_DELIM

ContentAtCursor == SubSeq(token_str, i + 2, FirstEnd - 1)

Failed == pc = "error" /\ err # "none" /\ back = <<>>

\* ---------------------------------------------------------------------- C1
\* C1: once the decoder has been run on the encoder's output for data, it
\* has not raised, the returned bytes equal data, and the assertion of the
\* round-trip test holds.
C1_RoundTrip ==
  cmd = "test" =>
    /\ pc \notin {"error", "assert_failed"}
    /\ (Returned => back = data)

C1_Witness == cmd = "test" /\ pc = "passed" /\ Len(data) >= 2 /\ back = data

\* ---------------------------------------------------------------------- C2
\* C2: the encoder never fails; it has emitted one token per character of
\* the underlying encoding processed so far, and what it returns is the
\* tokens in order: ceil(len(data)/3)*4 START...END tokens, none for empty
\* data.
C2_TokenCount ==
  cmd = "test" =>
    /\ (~Encoded => err = "none")
    /\ (pc = "enc_loop" => Len(out) = k)
    /\ \A q \in 1..Len(out) :
         /\ Len(out[q]) >= 2
         /\ out[q][1] = START_DELIM
         /\ out[q][Len(out[q])] = END_DELIM
         /\ CountSym(out[q], START_DELIM) = 1
         /\ CountSym(out[q], END_DELIM) = 1
         /\ (out[q] = <<START_DELIM, PADDING_MARKER, END_DELIM>>) <=> (b64[q] = "=")
    /\ Encoded =>
         /\ Len(out) = (IF Len(data) > 0 THEN ExpectedTokens(Len(data)) ELSE 0)
         /\ Len(out) = Len(b64)
         /\ CountSym(tok, START_DELIM) = Len(out)
         /\ CountSym(tok, END_DELIM) = Len(out)
         /\ Len(tok) = OffsetOf(out, Len(out) + 1)
         /\ \A q \in 1..Len(out) :
              SubSeq(tok, OffsetOf(out, q) + 1, OffsetOf(out, q) + Len(out[q])) = out[q]

C2_Witness ==
  /\ cmd = "test" /\ Encoded /\ Len(data) = 2
  /\ Len(out) = 4 /\ b64[4] = "=" /\ CountSym(tok, START_DELIM) = 4

\* ---------------------------------------------------------------------- C3
\* C3: the token emitted for a non-padding character with alphabet index idx
\* is START + content + END, where content holds exactly the table entries t
\* whose bit (5 - t) of idx is set, in strictly increasing table order, and
\* no delimiter; it is empty when idx is 0.
C3_TokenContent ==
  \A q \in 1..Len(out) :
    b64[q] # "=" =>
      LET idx == AlphabetIndex(b64[q])
          content == SubSeq(out[q], 2, Len(out[q]) - 1)
      IN /\ out[q] = <<START_DELIM>> \o content \o <<END_DELIM>>
         /\ SymbolsOf(content) = {HANGUL_BITS[t + 1] : t \in {u \in 0..5 : BitSet(idx, 5 - u)}}
         /\ \A a, b \in 1..Len(content) : a < b => TablePos(content[a]) < TablePos(content[b])
         /\ (idx = 0 => content = <<>>)

C3_Witness ==
  \E q \in 1..Len(out) :
    /\ b64[q] = "Z"
    /\ out[q] = <<START_DELIM, "KKANG", "PPI", "GEO", END_DELIM>>
    /\ \E r \in 1..Len(out) : b64[r] = "A" /\ out[r] = <<START_DELIM, END_DELIM>>

\* ---------------------------------------------------------------------- C4
\* C4: every token emitted for a padding character is exactly
\* START + PaddingMarker + END, and no token emitted for another character
\* contains the Padding Marker.
C4_PaddingShape ==
  \A q \in 1..Len(out) :
    IF b64[q] = "="
    THEN out[q] = <<START_DELIM, PADDING_MARKER, END_DELIM>>
    ELSE PADDING_MARKER \notin SymbolsOf(out[q])

C4_Witness ==
  /\ Encoded /\ Len(data) = 1 /\ Len(out) = 4
  /\ out[3] = <<START_DELIM, PADDING_MARKER, END_DELIM>>
  /\ out[4] = <<START_DELIM, PADDING_MARKER, END_DELIM>>
  /\ out[1] # out[3]

\* ---------------------------------------------------------------------- C5
\* C5: a loop iteration that finds START at the cursor and no END in the
\* rest of the stream raises the error of the missing end delimiter, and a
\* call that raised has returned no bytes.
C5_Unterminated ==
  [][ /\ (AtLoopHead /\ token_str[i + 1] = START_DELIM /\ ~EndAhead)
         => (pc' = "error" /\ err' = "end" /\ back' = <<>>)
      /\ (pc = "error" => Failed) ]_vars

C5_Witness ==
  /\ pc = "error" /\ err = "end" /\ back = <<>>
  /\ Len(b64_chars) = 1
  /\ token_str[n] \in HangulSet

\* ---------------------------------------------------------------------- C6
\* C6: a loop iteration whose token content is not exactly the Padding
\* Marker and holds a symbol that is not a bit-symbol raises the error of
\* the unknown token character, and returns no bytes.
C6_ForeignSymbol ==
  [][ (/\ AtLoopHead /\ token_str[i + 1] = START_DELIM /\ EndAhead
       /\ ContentAtCursor # <<PADDING_MARKER>>
       /\ ~(SymbolsOf(ContentAtCursor) \subseteq HangulSet))
      => (pc' = "error" /\ err' = "unknown" /\ back' = <<>> /\ b64_chars' = b64_chars) ]_vars

C6_Witness ==
  /\ pc = "error" /\ err = "unknown"
  /\ \E p \in 2..(i - 1) : token_str[p] = PADDING_MARKER /\ token_str[p - 1] \in HangulSet

\* ---------------------------------------------------------------------- C7
\* C7: a loop iteration whose cursor is before the end of the stream on a
\* symbol other than START raises the error of the expected start
\* delimiter; the loop is left without an error only with the cursor at the
\* end of the stream, just past an END or on the empty stream.
C7_Boundary ==
  [][ /\ (AtLoopHead /\ token_str[i + 1] # START_DELIM)
         => (pc' = "error" /\ err' = "start" /\ back' = <<>>)
      /\ (pc = "dec_loop" /\ pc' # "dec_loop" /\ err' \notin {"start", "end", "unknown"})
         => (i = n /\ (n = 0 \/ token_str[n] = END_DELIM)) ]_vars

C7_Witness ==
  /\ pc = "error" /\ err = "start" /\ i >= 2
  /\ token_str[i] = END_DELIM /\ token_str[i + 1] = END_DELIM

\* ---------------------------------------------------------------------- C8
\* C8: the decoder returns bytes only when the string of recorded units has
\* a length that is a multiple of 4 and padding only as a suffix of length
\* 1 or 2.
C8_InvalidUnderlying ==
  Returned =>
    /\ Len(b64_chars) % 4 = 0
    /\ \A p \in 1..Len(b64_chars) :
         b64_chars[p] = "=" =>
           /\ p >= Len(b64_chars) - 1
           /\ \A r \in p..Len(b64_chars) : b64_chars[r] = "="

\* ---------------------------------------------------------------------- C9
\* C9: every recorded unit of a token whose content is bit-symbols only is
\* the alphabet character whose index is the sum of 2^(5-t) over the table
\* entries t that occur in the content, whatever their order and number of
\* occurrences; an empty content records the first alphabet character.
C9_PresenceSet ==
  pc \in {"dec_loop", "returned", "passed", "error"} =>
    \A q \in 1..Len(b64_chars) :
      LET c == ContentOf(q) IN
      IF c = <<PADDING_MARKER>> THEN b64_chars[q] = "="
      ELSE /\ SymbolsOf(c) \subseteq HangulSet
           /\ b64_chars[q] = BASE64_ALPHABET[PresenceIndex(c) + 1]
           /\ (c = <<>> => b64_chars[q] = "A")

C9_Witness ==
  /\ cmd = "decode" /\ pc = "returned" /\ Len(b64_chars) = 4
  /\ ContentOf(1) = <<"BEO", "KKING", "BEO">> /\ b64_chars[1] = "i"
  /\ ContentOf(2) = <<"GEO", "KKING">> /\ b64_chars[2] = "h"
  /\ ContentOf(3) = <<>> /\ b64_chars[3] = "A"

\* --------------------------------------------------------------------- C10
\* C10: a loop iteration that does not fail moves the cursor at least 2
\* forward to just past the first END after the cursor, never beyond the
\* end of the stream, and records one unit; at every loop head the recorded
\* units are as many as the ENDs of the consumed prefix; and every call
\* ends, with an error or with the cursor at the end of the stream.
C10_StepProgress ==
  (AtLoopHead /\ pc' # "error") =>
    /\ i' >= i + 2
    /\ i' <= n
    /\ token_str[i'] = END_DELIM
    /\ \A p \in (i + 1)..(i' - 1) : token_str[p] # END_DELIM
    /\ Len(b64_chars') = Len(b64_chars) + 1
    /\ SubSeq(b64_chars', 1, Len(b64_chars)) = b64_chars
    /\ token_str' = token_str

C10_LoopHead ==
  pc = "dec_loop" =>
    /\ i <= n
    /\ Len(b64_chars) = CountSym(SubSeq(token_str, 1, i), END_DELIM)

C10_ScanProgress ==
  /\ [][C10_StepProgress]_vars
  /\ []C10_LoopHead
  /\ <>(pc = "error" \/ (Returned /\ i = n))

C10_Witness ==
  /\ pc = "dec_loop" /\ i = n /\ Len(b64_chars) = 3 /\ i > 6
  /\ \E p \in 1..n : token_str[p] \in HangulSet

====
